---- MODULE Spec2Model ----
(***************************************************************************)
(* A model of jrni's journal database (src/src/filedb.rs):                 *)
(*                                                                         *)
(*   - walk_journal: the calling thread walks the tree, filters entries    *)
(*     with is_jrnl_path, dispatches one closure per eligible path to a    *)
(*     thread pool, drops its sender and collects the results channel;     *)
(*   - Entry::from_path, normalize_tags, get_tags, get_id: the parser.     *)
(*                                                                         *)
(* Spec / FairSpec model the walk, ParseSpec the parser on bounded files,  *)
(* NormSpec normalize_tags on bounded raw values.                          *)
(***************************************************************************)
EXTENDS Bags, Naturals, Integers, Sequences, FiniteSets, TLC

\* ------------------------------------------------------------------ bounds

\* Number of entries the directory traversal yields.
NumPaths == 3

\* Number of worker threads of the pool (num_cpus::get() on the host).
PoolSize == 2

Paths == 1..NumPaths

\* ------------------------------------------------------- the directory tree

\* Path::extension() of a name without extension, and an extension that is
\* not valid UTF-8 (OsStr::to_str gives None).
NoExt == "<none>"
NonUtf8 == "<non-utf8>"

\* What a call path_fn(path) does: returns Ok, returns Err, panics, or never
\* returns (a stalled read).
ConvBehaviours == {"ok", "err", "panic", "hang"}

\* One entry of the traversal: dir = Path::is_dir, ext = Path::extension,
\* ok = WalkDir yielded Ok(entry), conv = what path_fn does on this path.
Ent(d, e, k, c) == [dir |-> d, ext |-> e, ok |-> k, conv |-> c]

EntryKinds ==
    { Ent(FALSE, "md", TRUE, c) : c \in ConvBehaviours \ {"err"} }
    \cup { Ent(FALSE, "txt", TRUE, "err"),
           Ent(TRUE, "md", TRUE, "ok"),
           Ent(FALSE, "rs", TRUE, "ok"),
           Ent(FALSE, NoExt, TRUE, "ok"),
           Ent(FALSE, NonUtf8, TRUE, "ok"),
           Ent(FALSE, "md", FALSE, "ok") }

VARIABLES
    tree,       \* Paths -> EntryKinds, in traversal order
    pc,         \* the calling thread: walk, collect, returned, panicked
    idx,        \* next entry of the traversal
    queue,      \* the pool's job queue (paths of the queued closures)
    unit,       \* Paths -> none, queued, run, send, drop, done: the closure of a path
    senders,    \* live Sender handles (tx and its clones)
    rxAlive,    \* the Receiver rx has not been dropped
    chan,       \* results sent and not yet received
    results,    \* the Vec being collected / returned
    called,     \* paths path_fn has been invoked on
    sendFailed, \* a send hit a dropped receiver ("Couldn't send data!")
    file,       \* the lines of the file given to Entry::from_path
    io,         \* whether the file can be opened, read and stat'ed
    ppc,        \* the parser run: start, parsed, failed
    entry,      \* the Entry from_path returned
    tagsOut,    \* what get_tags returned
    idOut,      \* what get_id returned
    raw,        \* the Option<&YValue> given to normalize_tags
    norm,       \* what normalize_tags returned
    journal,    \* FileNames -> [exists, id]: the files of the journal directory
    newName,    \* the name given to new_entry
    npc,        \* the new_entry run: start, bailed, written
    written     \* the file new_entry created and the id it wrote

walkVars == <<tree, pc, idx, queue, unit, senders, rxAlive, chan, results,
              called, sendFailed>>
parseVars == <<file, io, ppc, entry, tagsOut, idOut>>
normVars == <<raw, norm>>
newVars == <<journal, newName, npc, written>>
vars == <<walkVars, parseVars, normVars, newVars>>

\* --------------------------------------------------------- is_jrnl_path

\* The mutant: the directory test left out.
is_jrnl_path_nodir(e) ==
    IF e.ext = NoExt THEN "false"
    ELSE IF e.ext = NonUtf8 THEN "panic"
    ELSE IF e.ext \in {"md", "txt"} THEN "true"
    ELSE "false"

\* "true" / "false", or "panic" where osstr.to_str().unwrap() panics.
is_jrnl_path(e) ==
    IF e.dir THEN "false"
    ELSE IF e.ext = NoExt THEN "false"
    ELSE IF e.ext = NonUtf8 THEN "panic"
    ELSE IF e.ext \in {"md", "txt"} THEN "true"
    ELSE "false"

\* get_jrnl_walker: filter_map(|e| e.ok()) then filter(is_jrnl_path); the
\* verdict on entry p: "skip", "yield" or "panic".
get_jrnl_walker(p) ==
    IF ~tree[p].ok THEN "skip"
    ELSE CASE is_jrnl_path(tree[p]) = "true" -> "yield"
           [] is_jrnl_path(tree[p]) = "false" -> "skip"
           [] OTHER -> "panic"

\* ------------------------------------------------------------- strings

\* A string is a sequence of one-character strings.
MaxLines == 3
MaxStrLen == 4

IsSpace(c) == c \in {" ", "\t"}

RECURSIVE TrimStart(_)
\* str::trim_start
TrimStart(s) ==
    IF s # <<>> /\ IsSpace(Head(s)) THEN TrimStart(Tail(s)) ELSE s

RECURSIVE TrimEnd(_)
\* str::trim_end
TrimEnd(s) ==
    IF s # <<>> /\ IsSpace(s[Len(s)])
    THEN TrimEnd(SubSeq(s, 1, Len(s) - 1))
    ELSE s

\* str::trim
Trim(s) == TrimEnd(TrimStart(s))

RECURSIVE Split(_, _)
\* str::split(c): the pieces between the occurrences of c; a string without
\* c, the empty string included, gives one piece.
Split(s, c) ==
    IF \E i \in 1..Len(s) : s[i] = c
    THEN LET i == CHOOSE k \in 1..Len(s) :
                    s[k] = c /\ \A j \in 1..(k - 1) : s[j] # c
         IN <<SubSeq(s, 1, i - 1)>> \o Split(SubSeq(s, i + 1, Len(s)), c)
    ELSE <<s>>

RECURSIVE Join(_, _)
\* [String]::join(c)
Join(ls, c) ==
    IF ls = <<>> THEN <<>>
    ELSE IF Len(ls) = 1 THEN ls[1]
    ELSE ls[1] \o <<c>> \o Join(Tail(ls), c)

\* ------------------------------------------------------------- YValue

\* serde_yaml::Value; every variant carries the same fields: s the text of a
\* scalar, items the elements of a sequence.
YV(t, s, items) == [t |-> t, s |-> s, items |-> items]
YNull == YV("Null", <<>>, <<>>)
YString(s) == YV("String", s, <<>>)
YNumber(s) == YV("Number", s, <<>>)
YBool(s) == YV("Bool", s, <<>>)
YMapping == YV("Mapping", <<>>, <<>>)
YSequence(items) == YV("Sequence", <<>>, items)

\* Option<T>
None == [some |-> FALSE, val |-> YNull]
Some(v) == [some |-> TRUE, val |-> v]

\* The mutant: the pieces of a string are not trimmed.
normalize_tags_notrim(tags) ==
    IF ~tags.some THEN YSequence(<<>>)
    ELSE CASE tags.val.t = "String" ->
                YSequence([i \in 1..Len(Split(tags.val.s, ",")) |->
                              YString(Split(tags.val.s, ",")[i])])
           [] tags.val.t = "Sequence" -> tags.val
           [] tags.val.t = "Null" -> YSequence(<<>>)
           [] OTHER -> YSequence(<<>>)

normalize_tags(tags) ==
    IF ~tags.some THEN YSequence(<<>>)
    ELSE CASE tags.val.t = "String" ->
                YSequence([i \in 1..Len(Split(tags.val.s, ",")) |->
                              YString(Trim(Split(tags.val.s, ",")[i]))])
           [] tags.val.t = "Sequence" -> tags.val
           [] tags.val.t = "Null" -> YSequence(<<>>)
           [] OTHER -> YSequence(<<>>)

\* ------------------------------------------------- serde_yaml::from_str

IsDigit(c) == c \in {"0", "1", "2", "3", "4", "5", "6", "7", "8", "9"}

\* A scalar inside a flow sequence, or a block scalar that is no sequence.
yaml_scalar(s) ==
    IF s = <<>> THEN YNull
    ELSE IF \A i \in 1..Len(s) : IsDigit(s[i]) THEN YNumber(s)
    ELSE IF Len(s) >= 2 /\ s[1] = "\"" /\ s[Len(s)] = "\""
         THEN YString(SubSeq(s, 2, Len(s) - 1))
    ELSE YString(s)

\* The value of a "key: value" line: a flow sequence [a, b] or a scalar.
yaml_value(s) ==
    IF Len(s) >= 2 /\ s[1] = "[" /\ s[Len(s)] = "]"
    THEN LET inner == Trim(SubSeq(s, 2, Len(s) - 1))
             parts == Split(inner, ",")
         IN IF inner = <<>> THEN YSequence(<<>>)
            ELSE YSequence([i \in 1..Len(parts) |-> yaml_scalar(Trim(parts[i]))])
    ELSE yaml_scalar(s)

\* Where a line's key ends: the first ':' that ends the line or is followed
\* by a space; 0 when the line has none (a plain scalar, not a mapping).
KeyEnd(l) ==
    LET cs == { i \in 1..Len(l) : l[i] = ":" /\ (i = Len(l) \/ l[i + 1] = " ") }
    IN IF cs = {} THEN 0 ELSE CHOOSE i \in cs : \A j \in cs : i <= j

\* HashMap::insert
Insert(m, k, v) == [x \in (DOMAIN m) \cup {k} |-> IF x = k THEN v ELSE m[x]]

\* HashMap::get
Get(m, k) == IF k \in DOMAIN m THEN Some(m[k]) ELSE None

EmptyMap == [x \in {} |-> YNull]

RECURSIVE yaml_lines(_, _)
\* The block mapping's lines in order into a HashMap; blank lines are
\* skipped, and a line that is no "key: value" makes the document fail.
yaml_lines(ls, acc) ==
    IF ls = <<>> THEN [ok |-> TRUE, map |-> acc]
    ELSE IF Trim(Head(ls)) = <<>> THEN yaml_lines(Tail(ls), acc)
    ELSE IF KeyEnd(Head(ls)) <= 1 THEN [ok |-> FALSE, map |-> EmptyMap]
    ELSE LET l == Head(ls)
             k == SubSeq(l, 1, KeyEnd(l) - 1)
             v == yaml_value(Trim(SubSeq(l, KeyEnd(l) + 1, Len(l))))
         IN yaml_lines(Tail(ls), Insert(acc, k, v))

\* serde_yaml::from_str::<HashMap<String, Value>>(text). An empty document
\* decodes or fails depending on the serde_yaml version: emptyOk chooses.
yaml_from_str(text, emptyOk) ==
    LET ls == Split(text, "\n")
    IN IF \A i \in 1..Len(ls) : Trim(ls[i]) = <<>>
       THEN [ok |-> emptyOk, map |-> EmptyMap]
       ELSE yaml_lines(ls, EmptyMap)

\* ------------------------------------------------------ Entry::from_path

TAGS == <<"t", "a", "g", "s">>
ID == <<"i", "d">>
DELIM == <<"-", "-", "-">>

\* The mutant: every delimiter line splits, not only the first.
IsDelimiterAny(end_idx, line) == Trim(line) = DELIM

\* The test of the scanning loop: no delimiter seen yet, and this is one.
IsDelimiter(end_idx, line) == end_idx = -1 /\ Trim(line) = DELIM

RECURSIVE Scan(_, _, _, _, _)
\* The loop over f.lines(): the index of the delimiter (-1: none), the
\* lines pushed to rawfrontmatter and the lines pushed to body.
Scan(lines, i, end_idx, rawfm, body) ==
    IF i > Len(lines) THEN [end_idx |-> end_idx, rawfm |-> rawfm, body |-> body]
    ELSE IF IsDelimiter(end_idx, lines[i])
         THEN Scan(lines, i + 1, i, rawfm, body)
    ELSE IF end_idx = -1
         THEN Scan(lines, i + 1, end_idx, Append(rawfm, lines[i]), body)
    ELSE Scan(lines, i + 1, end_idx, rawfm, Append(body, lines[i]))

\* The mutant: the frontmatter is decoded whether a delimiter was found or not.
ShouldDecodeAlways(end_idx) == TRUE

\* The frontmatter is decoded only when a delimiter was found.
ShouldDecode(end_idx) == end_idx # -1

\* The mutant: a decode error leaves the body as scanned.
FallbackBodyKeep(fm_err, all_lines, body) == body

\* if let Some(_) = fm_err { body = all_lines }
FallbackBody(fm_err, all_lines, body) == IF fm_err THEN all_lines ELSE body

\* The mutant: an empty body stays empty.
NoFrontmatterBodyKeep(body, rawfm) == body

\* if body.len() == 0 { body = rawfrontmatter }
NoFrontmatterBody(body, rawfm) == IF Len(body) = 0 THEN rawfm ELSE body

\* fm.insert("tags", normalize_tags(fm.get("tags")))
InsertTags(fm) == Insert(fm, TAGS, normalize_tags(Get(fm, TAGS)))

NoEntry == [ok |-> FALSE, fm |-> EmptyMap, fm_err |-> FALSE, body |-> <<>>]

\* Entry::from_path on a file with these lines. readable: open, read and
\* stat succeed; emptyOk: what serde_yaml makes of an empty document.
from_path(lines, readable, emptyOk) ==
    IF ~readable THEN NoEntry
    ELSE LET sc == Scan(lines, 1, -1, <<>>, <<>>)
             dec == IF ShouldDecode(sc.end_idx)
                    THEN yaml_from_str(Join(sc.rawfm, "\n"), emptyOk)
                    ELSE [ok |-> TRUE, map |-> EmptyMap]
             fm_err == ~dec.ok
             fm == IF dec.ok THEN dec.map ELSE EmptyMap
             body == NoFrontmatterBody(FallbackBody(fm_err, lines, sc.body),
                                       sc.rawfm)
         IN [ok |-> TRUE, fm |-> InsertTags(fm), fm_err |-> fm_err,
             body |-> Join(body, "\n")]

Unset == [kind |-> "unset", val |-> <<>>]

\* Entry::get_tags: None, Some(tags), or a panic where as_sequence() or
\* as_str() is unwrapped on a value of another type.
get_tags(e) ==
    IF TAGS \notin DOMAIN e.fm THEN [kind |-> "none", val |-> <<>>]
    ELSE IF e.fm[TAGS].t # "Sequence" THEN [kind |-> "panic", val |-> <<>>]
    ELSE IF \E i \in 1..Len(e.fm[TAGS].items) : e.fm[TAGS].items[i].t # "String"
         THEN [kind |-> "panic", val |-> <<>>]
    ELSE [kind |-> "some",
          val |-> [i \in 1..Len(e.fm[TAGS].items) |-> e.fm[TAGS].items[i].s]]

\* The mutant: an empty string is returned as an id.
get_id_keepempty(e) ==
    IF ID \notin DOMAIN e.fm THEN [kind |-> "none", val |-> <<>>]
    ELSE IF e.fm[ID].t # "String" THEN [kind |-> "none", val |-> <<>>]
    ELSE [kind |-> "some", val |-> e.fm[ID].s]

\* Entry::get_id
get_id(e) ==
    IF ID \notin DOMAIN e.fm THEN [kind |-> "none", val |-> <<>>]
    ELSE IF e.fm[ID].t # "String" THEN [kind |-> "none", val |-> <<>>]
    ELSE IF Len(e.fm[ID].s) = 0 THEN [kind |-> "none", val |-> <<>>]
    ELSE [kind |-> "some", val |-> e.fm[ID].s]

\* --------------------------------------------------------- the files

\* The lines files are made of.
LinePool ==
    { DELIM,
      <<" ", "-", "-", "-", " ">>,
      <<"t", "a", "g", "s", ":", " ", "a", ",", " ", "b">>,
      <<"t", "a", "g", "s", ":", " ", "[", "x", ",", " ", "y", "]">>,
      <<"t", "a", "g", "s", ":", " ", "[", "1", ",", "x", "]">>,
      <<"t", "a", "g", "s", ":", " ", "4", "2">>,
      <<"i", "d", ":", " ", "x", "1">>,
      <<"i", "d", ":", " ">>,
      <<"i", "d", ":", " ", "\"", "\"">>,
      <<"i", "d", ":", " ", "4", "2">>,
      <<"p", "r", "o", "s", "e">>,
      <<>> }

SeqsUpTo(S, n) == UNION { [1..k -> S] : k \in 0..n }

Files == SeqsUpTo(LinePool, MaxLines)

ParserAtRest ==
    /\ file = <<>>
    /\ io = FALSE
    /\ ppc = "rest"
    /\ entry = NoEntry
    /\ tagsOut = Unset
    /\ idOut = Unset

ParseInit ==
    /\ file \in Files
    /\ io \in BOOLEAN
    /\ ppc = "start"
    /\ entry = NoEntry
    /\ tagsOut = Unset
    /\ idOut = Unset

\* Entry::from_path(p) returns Ok(Entry) or an I/O error.
FromPath ==
    /\ ppc = "start"
    /\ \E emptyOk \in BOOLEAN :
          entry' = from_path(file, io, emptyOk)
    /\ ppc' = IF entry'.ok THEN "parsed" ELSE "failed"
    /\ UNCHANGED <<file, io, tagsOut, idOut>>
    /\ UNCHANGED <<walkVars, normVars, newVars>>

\* A caller reads the tags of the entry.
GetTags ==
    /\ ppc = "parsed"
    /\ tagsOut = Unset
    /\ tagsOut' = get_tags(entry)
    /\ UNCHANGED <<file, io, ppc, entry, idOut>>
    /\ UNCHANGED <<walkVars, normVars, newVars>>

\* A caller reads the id of the entry.
GetId ==
    /\ ppc = "parsed"
    /\ idOut = Unset
    /\ idOut' = get_id(entry)
    /\ UNCHANGED <<file, io, ppc, entry, tagsOut>>
    /\ UNCHANGED <<walkVars, normVars, newVars>>

\* ------------------------------------------- normalize_tags on raw values

Alphabet == {"a", ",", " "}

Strings == SeqsUpTo(Alphabet, MaxStrLen)

\* The raw values: absent, null, strings, sequences (of strings, of other
\* scalars), numbers, booleans, mappings.
RawValues ==
    {None, Some(YNull), Some(YNumber(<<"4", "2">>)), Some(YBool(<<"t">>)),
     Some(YMapping)}
    \cup { Some(YString(s)) : s \in Strings }
    \cup { Some(YSequence(q)) :
             q \in SeqsUpTo({YString(<<" ", "a">>), YString(<<"a", ",", "a">>),
                             YNumber(<<"1">>), YNull}, 2) }

NormUnset == YV("unset", <<>>, <<>>)

NormAtRest ==
    /\ raw = None
    /\ norm = YNull

NormInit ==
    /\ raw \in RawValues
    /\ norm = NormUnset

Normalize ==
    /\ norm = NormUnset
    /\ norm' = normalize_tags(raw)
    /\ UNCHANGED raw
    /\ UNCHANGED <<walkVars, parseVars, newVars>>

\* ------------------------------------------------------------ the walk

\* ------------------------------------------------------------ new_entry

\* The names an entry is created with, and the days files were created on;
\* new_entry runs on Today.
Names == {"a", "b"}
Dates == {"d0", "d1"}
Today == "d1"

\* format!("{}-{}.md", now.format("%F"), name)
FileName(date, name) == [date |-> date, name |-> name]
FileNames == { FileName(d, n) : d \in Dates, n \in Names }

\* A file of the journal directory: whether it exists and what get_id gives
\* for it, "" standing for None.
NoFile == [exists |-> FALSE, id |-> ""]
FileStates == {NoFile} \cup { [exists |-> TRUE, id |-> i] : i \in Names \cup {""} }

\* The path of the journal directory.
JournalDir == [date |-> "", name |-> ""]

\* files_path.push(filename): from then on files_path is the path of the new
\* file, and it is this path new_entry hands to get_entries.
Pushed(dir, filename) == filename

\* get_entries(root): walk_journal over root. The directory gives its files;
\* an existing file gives itself; a path that does not exist gives an error
\* entry, which filter_map(|e| e.ok()) drops.
get_entries(root) ==
    IF root = JournalDir THEN { f \in FileNames : journal[f].exists }
    ELSE IF journal[root].exists THEN {root}
    ELSE {}

\* entries.iter().filter_map(|e| e.get_id()).collect()
existing_ids(entries) == { journal[f].id : f \in { g \in entries : journal[g].id # "" } }

NoWrite == [file |-> JournalDir, id |-> ""]

NewAtRest ==
    /\ journal = [f \in FileNames |-> NoFile]
    /\ newName = "a"
    /\ npc = "bailed"
    /\ written = NoWrite

NewInit ==
    /\ journal \in [FileNames -> FileStates]
    /\ newName \in Names
    /\ npc = "start"
    /\ written = NoWrite

\* new_entry(files_path, name, tags, read_body_from_stdin)
NewEntry ==
    /\ npc = "start"
    /\ LET files_path == Pushed(JournalDir, FileName(Today, newName))
       IN  IF journal[files_path].exists
           THEN /\ npc' = "bailed"
                /\ UNCHANGED <<journal, written>>
           ELSE LET ids == existing_ids(get_entries(files_path))
                    id == IF newName \in ids THEN "" ELSE newName
                IN  /\ journal' = [journal EXCEPT
                                     ![files_path] = [exists |-> TRUE, id |-> id]]
                    /\ written' = [file |-> files_path, id |-> id]
                    /\ npc' = "written"
    /\ UNCHANGED newName
    /\ UNCHANGED <<walkVars, parseVars, normVars>>

\* The units a pool thread is executing: the pool's threads are
\* interchangeable, so a unit records its own progress.
Busy == { p \in Paths : unit[p] \in {"run", "send", "drop"} }

WalkAtRest ==
    /\ tree = [p \in Paths |-> Ent(TRUE, NoExt, TRUE, "ok")]
    /\ pc = "returned"
    /\ idx = NumPaths + 1
    /\ queue = <<>>
    /\ unit = [p \in Paths |-> "none"]
    /\ senders = 0
    /\ rxAlive = FALSE
    /\ chan = <<>>
    /\ results = <<>>
    /\ called = {}
    /\ sendFailed = FALSE

Init ==
    /\ tree \in [Paths -> EntryKinds]
    /\ pc = "walk"
    /\ idx = 1
    /\ queue = <<>>
    /\ unit = [p \in Paths |-> "none"]
    /\ senders = 1
    /\ rxAlive = TRUE
    /\ chan = <<>>
    /\ results = <<>>
    /\ called = {}
    /\ sendFailed = FALSE
    /\ ParserAtRest
    /\ NormAtRest
    /\ NewAtRest

\* The iterator passes over an entry that is an error or not a journal path.
WalkSkip ==
    /\ pc = "walk"
    /\ idx <= NumPaths
    /\ get_jrnl_walker(idx) = "skip"
    /\ idx' = idx + 1
    /\ UNCHANGED <<tree, pc, queue, unit, senders, rxAlive, chan, results,
                   called, sendFailed>>
    /\ UNCHANGED <<parseVars, normVars, newVars>>

\* is_jrnl_path panics on the calling thread: the unwinding drops tx, rx
\* and the pool handle, and walk_journal never returns. The pool's threads
\* go on with the closures they have.
WalkPanic ==
    /\ pc = "walk"
    /\ idx <= NumPaths
    /\ get_jrnl_walker(idx) = "panic"
    /\ pc' = "panicked"
    /\ senders' = senders - 1
    /\ rxAlive' = FALSE
    /\ UNCHANGED <<tree, idx, queue, unit, chan, results, called, sendFailed>>
    /\ UNCHANGED <<parseVars, normVars, newVars>>

\* The mutant: a bounded job queue, execute waits while a closure is queued.
ExecuteAcceptsWhenEmpty == queue = <<>>

\* pool.execute(closure) hands the closure to the pool's unbounded job
\* queue: it accepts whatever the number of closures queued or running.
ExecuteAccepts == TRUE

\* The loop body: tx.clone() and pool.execute(closure), which queues the
\* closure and never waits.
Dispatch ==
    /\ pc = "walk"
    /\ idx <= NumPaths
    /\ ExecuteAccepts
    /\ get_jrnl_walker(idx) = "yield"
    /\ senders' = senders + 1
    /\ queue' = Append(queue, idx)
    /\ unit' = [unit EXCEPT ![idx] = "queued"]
    /\ idx' = idx + 1
    /\ UNCHANGED <<tree, pc, rxAlive, chan, results, called, sendFailed>>
    /\ UNCHANGED <<parseVars, normVars, newVars>>

\* The iterator is exhausted: drop(tx).
DropTx ==
    /\ pc = "walk"
    /\ idx > NumPaths
    /\ senders' = senders - 1
    /\ pc' = "collect"
    /\ UNCHANGED <<tree, idx, queue, unit, rxAlive, chan, results, called,
                   sendFailed>>
    /\ UNCHANGED <<parseVars, normVars, newVars>>

\* rx.iter() yields the next value.
Recv ==
    /\ pc = "collect"
    /\ chan # <<>>
    /\ results' = Append(results, Head(chan))
    /\ chan' = Tail(chan)
    /\ UNCHANGED <<tree, pc, idx, queue, unit, senders, rxAlive, called,
                   sendFailed>>
    /\ UNCHANGED <<parseVars, normVars, newVars>>

\* The mutant: the iterator ends as soon as the channel is empty.
ChannelClosedWhenEmpty == chan = <<>>

\* rx.iter() ends: the channel is empty and every Sender has been dropped.
ChannelClosed == chan = <<>> /\ senders = 0

\* collect() finishes; walk_journal returns and rx is dropped.
Return ==
    /\ pc = "collect"
    /\ ChannelClosed
    /\ pc' = "returned"
    /\ rxAlive' = FALSE
    /\ UNCHANGED <<tree, idx, queue, unit, senders, chan, results, called,
                   sendFailed>>
    /\ UNCHANGED <<parseVars, normVars, newVars>>

\* The mutant: the pool starts a closure whether a thread is free or not.
PoolHasFreeThreadAlways == TRUE

\* One of the pool's PoolSize threads is not executing a closure.
PoolHasFreeThread == Cardinality(Busy) < PoolSize

\* A free pool thread takes the closure at the head of the queue and calls
\* path_fn(path).
WorkerTake(p) ==
    /\ queue # <<>>
    /\ p = Head(queue)
    /\ PoolHasFreeThread
    /\ unit' = [unit EXCEPT ![p] = "run"]
    /\ queue' = Tail(queue)
    /\ called' = called \cup {p}
    /\ UNCHANGED <<tree, pc, idx, senders, rxAlive, chan, results, sendFailed>>
    /\ UNCHANGED <<parseVars, normVars, newVars>>

\* The mutant: an Err unwinds the unit like a panic.
UnitEndsWithoutSendOnErr(o) == o \in {"panic", "err"}

\* path_fn unwinds instead of returning a Result.
UnitEndsWithoutSend(o) == o = "panic"

\* The mutant: the unwinding closure leaks its tx clone.
SendersAfterUnwindLeak(n) == n

\* A closure that unwinds drops what it captured, its tx clone included.
SendersAfterUnwind(n) == n - 1

\* path_fn(path) ends: it returns a Result, or panics, when the closure's tx
\* is dropped without a send and the pool replaces the thread. A call that
\* hangs takes no step.
WorkerConvert(p) ==
    /\ unit[p] = "run"
    /\ tree[p].conv # "hang"
    /\ IF UnitEndsWithoutSend(tree[p].conv)
       THEN /\ unit' = [unit EXCEPT ![p] = "done"]
            /\ senders' = SendersAfterUnwind(senders)
       ELSE /\ unit' = [unit EXCEPT ![p] = "send"]
            /\ UNCHANGED senders
    /\ UNCHANGED <<tree, pc, idx, queue, rxAlive, chan, results, called,
                   sendFailed>>
    /\ UNCHANGED <<parseVars, normVars, newVars>>

\* tx.send(result).expect("Couldn't send data!"): the channel is unbounded,
\* so the send never waits; it fails, and the closure panics, when rx has
\* been dropped.
WorkerSend(p) ==
    /\ unit[p] = "send"
    /\ IF rxAlive
       THEN /\ chan' = Append(chan, [path |-> p, res |-> tree[p].conv])
            /\ unit' = [unit EXCEPT ![p] = "drop"]
            /\ UNCHANGED <<senders, sendFailed>>
       ELSE /\ sendFailed' = TRUE
            /\ unit' = [unit EXCEPT ![p] = "done"]
            /\ senders' = senders - 1
            /\ UNCHANGED chan
    /\ UNCHANGED <<tree, pc, idx, queue, rxAlive, results, called>>
    /\ UNCHANGED <<parseVars, normVars, newVars>>

\* The closure ends and its tx clone is dropped.
WorkerDrop(p) ==
    /\ unit[p] = "drop"
    /\ unit' = [unit EXCEPT ![p] = "done"]
    /\ senders' = senders - 1
    /\ UNCHANGED <<tree, pc, idx, queue, rxAlive, chan, results, called,
                   sendFailed>>
    /\ UNCHANGED <<parseVars, normVars, newVars>>

Next ==
    \/ WalkSkip
    \/ WalkPanic
    \/ Dispatch
    \/ DropTx
    \/ Recv
    \/ Return
    \/ \E p \in Paths : WorkerTake(p)
    \/ \E p \in Paths : WorkerConvert(p)
    \/ \E p \in Paths : WorkerSend(p)
    \/ \E p \in Paths : WorkerDrop(p)

Spec == Init /\ [][Next]_vars

\* The steps of the calling thread, and of the pool thread that executes the
\* closure of path p.
MainStep == WalkSkip \/ WalkPanic \/ Dispatch \/ DropTx \/ Recv \/ Return

UnitStep(p) ==
    WorkerTake(p) \/ WorkerConvert(p) \/ WorkerSend(p) \/ WorkerDrop(p)

\* The calling thread and the pool's threads are OS threads: a thread that
\* can take a step eventually takes one.
FairSpec ==
    /\ Init
    /\ [][Next]_vars
    /\ WF_vars(MainStep)
    /\ \A p \in Paths : WF_vars(UnitStep(p))

\* ------------------------------------------------ the other specifications

ParseSpecInit == ParseInit /\ WalkAtRest /\ NormAtRest /\ NewAtRest

ParseNext == FromPath \/ GetTags \/ GetId

ParseSpec == ParseSpecInit /\ [][ParseNext]_vars

NormSpecInit == NormInit /\ WalkAtRest /\ ParserAtRest /\ NewAtRest

NewSpecInit == NewInit /\ WalkAtRest /\ ParserAtRest /\ NormAtRest

NewNext == NewEntry

NewSpec == NewSpecInit /\ [][NewNext]_vars

NormNext == Normalize

NormSpec == NormSpecInit /\ [][NormNext]_vars

\* ------------------------------------------------- properties of the walk

\* An eligible path found by the traversal: a readable entry that is not a
\* directory and whose extension is md or txt.
EligiblePaths ==
    { p \in Paths : tree[p].ok /\ ~tree[p].dir /\ tree[p].ext \in {"md", "txt"} }

\* The eligible paths whose path_fn call returned a Result.
ReturnedPaths == { p \in EligiblePaths : tree[p].conv \in {"ok", "err"} }

ResultsFor(p) == { i \in 1..Len(results) : results[i].path = p }

C2_ReturnsAfterEveryUnit ==
    pc = "returned" =>
        /\ idx > NumPaths
        /\ queue = <<>>
        /\ Busy = {}
        /\ chan = <<>>
        /\ senders = 0
        /\ \A p \in EligiblePaths : tree[p].conv # "hang"

\* A walk has returned after two units ran and were collected.
C2_Witness ==
    /\ pc = "returned"
    /\ Len(results) = 2
    /\ Cardinality(called) = 2
    /\ results[1].path < results[2].path

\* C3: for a path_fn whose every call terminates, under fair scheduling,
\* walk_journal eventually returns.
C3_WalkIsTotal ==
    (\A p \in EligiblePaths : tree[p].conv # "hang") => <>(pc = "returned")

\* C4: an Err from path_fn is the result of its own path and of no other:
\* at the return every path whose call returned has exactly one result,
\* the value its own call returned; and a walk that has dispatched a unit
\* whose call returns Err still returns, once the traversal is over, when no
\* call hangs.
C4_ErrIsLocal ==
    /\ [](pc = "returned" =>
            \A p \in ReturnedPaths :
                /\ Cardinality(ResultsFor(p)) = 1
                /\ \A i \in ResultsFor(p) : results[i].res = tree[p].conv)
    /\ ((/\ pc = "collect"
         /\ \E p \in EligiblePaths : tree[p].conv = "err"
         /\ \A p \in EligiblePaths : tree[p].conv # "hang")
          ~> (pc = "returned"))

\* A walk has returned an Err for one path beside an Ok for another.
C4_Witness ==
    /\ pc = "returned"
    /\ \E i, j \in 1..Len(results) :
          results[i].res = "err" /\ results[j].res = "ok"

\* C5: path_fn is never invoked on, and no result is ever produced for, a
\* path that is a directory or whose extension is not md or txt.
C5_IneligibleNeverConverted ==
    \A p \in Paths :
        (tree[p].dir \/ tree[p].ext \notin {"md", "txt"}) =>
            /\ p \notin called
            /\ \A i \in 1..Len(queue) : queue[i] # p
            /\ unit[p] = "none"
            /\ \A i \in 1..Len(chan) : chan[i].path # p
            /\ \A i \in 1..Len(results) : results[i].path # p

\* A walk over a directory named *.md, a file with another extension and an
\* eligible file has returned the eligible file's result.
C5_Witness ==
    /\ pc = "returned"
    /\ Len(results) = 1
    /\ \E p, q \in Paths :
          /\ tree[p].dir /\ tree[p].ext = "md"
          /\ ~tree[q].dir /\ tree[q].ext \in {"rs", NoExt}

\* ----------------------------------------------- properties of the parser

Delims(f) == { i \in 1..Len(f) : Trim(f[i]) = DELIM }

HasDelim(f) == Delims(f) # {}

FirstDelim(f) == CHOOSE i \in Delims(f) : \A j \in Delims(f) : i <= j

\* The lines strictly before and strictly after the first delimiter.
Before(f) == SubSeq(f, 1, FirstDelim(f) - 1)
After(f) == SubSeq(f, FirstDelim(f) + 1, Len(f))

\* What decoding these lines can give.
Decodes(ls) == { yaml_from_str(Join(ls, "\n"), b) : b \in BOOLEAN }

TagsOnly == Insert(EmptyMap, TAGS, YSequence(<<>>))

\* C6: every parsed record's frontmatter has the key tags, its value is a
\* sequence of strings, and get_tags returns a sequence of strings.
C6_TagsAlwaysStrings ==
    ppc = "parsed" =>
        /\ TAGS \in DOMAIN entry.fm
        /\ entry.fm[TAGS].t = "Sequence"
        /\ \A i \in 1..Len(entry.fm[TAGS].items) :
              entry.fm[TAGS].items[i].t = "String"
        /\ tagsOut # Unset => tagsOut.kind = "some"

\* The commas of a string, and the k-th piece between them.
Commas(v) == { i \in 1..Len(v) : v[i] = "," }

CommaAt(v, k) ==
    IF k = 0 THEN 0
    ELSE IF k > Cardinality(Commas(v)) THEN Len(v) + 1
    ELSE CHOOSE i \in Commas(v) :
            Cardinality({ j \in Commas(v) : j <= i }) = k

\* The k-th piece without its surrounding whitespace.
TrimmedPiece(v, k) ==
    LET inside == { i \in (CommaAt(v, k - 1) + 1)..(CommaAt(v, k) - 1) :
                      ~IsSpace(v[i]) }
        lo == CHOOSE i \in inside : \A j \in inside : i <= j
        hi == CHOOSE i \in inside : \A j \in inside : j <= i
    IN IF inside = {} THEN <<>> ELSE SubSeq(v, lo, hi)

\* C7: normalize_tags gives a sequence for every raw value: empty for an
\* absent or null value, the trimmed comma-separated pieces for a string
\* (one more than it has commas), the sequence itself for a sequence, and
\* empty for any other type.
C7_NormalizeTags ==
    norm # NormUnset =>
        /\ norm.t = "Sequence"
        /\ CASE ~raw.some \/ raw.val.t = "Null" -> norm.items = <<>>
             [] raw.some /\ raw.val.t = "String" ->
                    /\ Len(norm.items) = Cardinality(Commas(raw.val.s)) + 1
                    /\ \A k \in 1..Len(norm.items) :
                          norm.items[k] = YString(TrimmedPiece(raw.val.s, k))
             [] raw.some /\ raw.val.t = "Sequence" -> norm = raw.val
             [] OTHER -> norm.items = <<>>

\* " a, " has been normalized to the two strings "a" and "".
C7_Witness ==
    /\ raw = Some(YString(<<" ", "a", ",", " ">>))
    /\ norm = YSequence(<<YString(<<"a">>), YString(<<>>)>>)

\* C8: a file with a delimiter whose block decodes gives a record with no
\* frontmatter error, the decoded mapping (tags normalized) as frontmatter,
\* and the lines after the first delimiter as body.
C8_DelimitedFileParsed ==
    (ppc = "parsed" /\ HasDelim(file)
       /\ \A d \in Decodes(Before(file)) : d.ok) =>
        /\ ~entry.fm_err
        /\ \E d \in Decodes(Before(file)) :
              entry.fm = Insert(d.map, TAGS, normalize_tags(Get(d.map, TAGS)))
        /\ entry.body = Join(After(file), "\n")

\* C9: a file with a delimiter whose block fails to decode gives a record
\* with frontmatter_err set, the whole file as body, and a frontmatter that
\* holds only tags = the empty sequence, so that get_id is absent.
C9_DecodeFailureFallsBack ==
    ppc = "parsed" /\ HasDelim(file) =>
        /\ (\A d \in Decodes(Before(file)) : ~d.ok) => entry.fm_err
        /\ entry.fm_err =>
              /\ entry.body = Join(file, "\n")
              /\ entry.fm = TagsOnly
              /\ idOut # Unset => idOut.kind = "none"

\* A file with prose before the delimiter and a line after it has been
\* parsed, and its id read.
C9_Witness ==
    /\ ppc = "parsed"
    /\ Len(file) = 3
    /\ file[1] = <<"p", "r", "o", "s", "e">>
    /\ file[2] = DELIM
    /\ file[3] = <<"i", "d", ":", " ", "x", "1">>
    /\ entry.fm_err
    /\ idOut.kind = "none"

\* C10 as stated: a file without delimiter is decoded as a whole; when that
\* succeeds the frontmatter is the mapping and the body is empty, when it
\* fails frontmatter_err is set and the body is the whole file.
C10_NoDelimiterDecoded ==
    ppc = "parsed" /\ ~HasDelim(file) =>
        /\ (\A d \in Decodes(file) : d.ok) =>
              /\ ~entry.fm_err
              /\ entry.body = <<>>
              /\ \E d \in Decodes(file) :
                    entry.fm = Insert(d.map, TAGS,
                                      normalize_tags(Get(d.map, TAGS)))
        /\ (\A d \in Decodes(file) : ~d.ok) =>
              /\ entry.fm_err
              /\ entry.body = Join(file, "\n")
              /\ entry.fm = TagsOnly

\* C10 amended: a file without delimiter is not decoded at all: the record
\* has no frontmatter error, a frontmatter that holds only tags = the empty
\* sequence, and the whole file as body, whether the file would decode as a
\* mapping or not.
C10_NoDelimiterNotDecoded ==
    ppc = "parsed" /\ ~HasDelim(file) =>
        /\ ~entry.fm_err
        /\ entry.fm = TagsOnly
        /\ entry.body = Join(file, "\n")
        /\ idOut # Unset => idOut.kind = "none"

\* A file of two lines that would decode as a mapping, and has no delimiter,
\* has been parsed and its id read.
C10_Witness ==
    /\ ppc = "parsed"
    /\ file = << <<"i", "d", ":", " ", "x", "1">>,
                 <<"t", "a", "g", "s", ":", " ", "a", ",", " ", "b">> >>
    /\ \A d \in Decodes(file) : d.ok
    /\ idOut.kind = "none"

\* C11: a file without delimiter whose content does not decode as a mapping
\* (plain prose) gives a record whose tags are the empty sequence, whose id
\* is absent and whose body is all the lines of the file joined by newlines.
C11_ProseFileIsBody ==
    (ppc = "parsed" /\ ~HasDelim(file)
       /\ \A d \in Decodes(file) : ~d.ok) =>
        /\ entry.body = Join(file, "\n")
        /\ Get(entry.fm, TAGS) = Some(YSequence(<<>>))
        /\ tagsOut # Unset => tagsOut = [kind |-> "some", val |-> <<>>]
        /\ idOut # Unset => idOut = [kind |-> "none", val |-> <<>>]

\* A file of two lines of prose has been parsed, its tags and its id read.
C11_Witness ==
    /\ ppc = "parsed"
    /\ file = << <<"p", "r", "o", "s", "e">>, <<"p", "r", "o", "s", "e">> >>
    /\ entry.body = <<"p", "r", "o", "s", "e", "\n", "p", "r", "o", "s", "e">>
    /\ tagsOut.kind = "some"
    /\ idOut.kind = "none"

\* C12 as stated: get_id returns absent exactly when the id key is missing
\* or its value is empty (the empty string, or null as for "id: " with
\* nothing after it), and in every other case returns the id's value.
C12_IdAbsentIffMissingOrEmpty ==
    (ppc = "parsed" /\ idOut # Unset) =>
        /\ idOut.kind \in {"none", "some"}
        /\ idOut.kind = "none" <=>
              \/ ID \notin DOMAIN entry.fm
              \/ entry.fm[ID] \in {YNull, YString(<<>>)}
        /\ idOut.kind = "some" => idOut.val = entry.fm[ID].s

\* C12 amended: get_id returns absent exactly when the id key is missing, its
\* value is not a string (null, a number, a boolean, a sequence, a mapping)
\* or its value is the empty string; otherwise it returns the string.
C12_IdAbsentIffNotNonEmptyString ==
    (ppc = "parsed" /\ idOut # Unset) =>
        /\ idOut.kind \in {"none", "some"}
        /\ idOut.kind = "none" <=>
              \/ ID \notin DOMAIN entry.fm
              \/ entry.fm[ID].t # "String"
              \/ entry.fm[ID] = YString(<<>>)
        /\ idOut.kind = "some" =>
              /\ entry.fm[ID].t = "String"
              /\ idOut.val = entry.fm[ID].s
              /\ idOut.val # <<>>

\* The id of a file whose frontmatter is the line "id: " has been read: the
\* value is null and the id is absent.
C12_Witness ==
    /\ ppc = "parsed"
    /\ file = << <<"i", "d", ":", " ">>, DELIM, <<"p", "r", "o", "s", "e">> >>
    /\ ID \in DOMAIN entry.fm
    /\ entry.fm[ID] = YNull
    /\ idOut = [kind |-> "none", val |-> <<>>]

\* The returned collection as a multiset of (path, result).
ResultBag ==
    [r \in {results[i] : i \in 1..Len(results)} |->
        Cardinality({i \in 1..Len(results) : results[i] = r})]

\* The multiset the tree alone determines: one element for each eligible
\* path whose call returns, holding what the call on that path returns.
TreeBag ==
    [r \in {[path |-> p, res |-> tree[p].conv] : p \in ReturnedPaths} |-> 1]

\* C13: for a fixed tree and a deterministic path_fn, the collection a walk
\* returns is, as a multiset of (path, result), a function of the tree
\* alone; hence any two runs on the same tree return equal multisets,
\* whatever the interleaving of the workers, and differ at most in order.
C13_ReturnedBagDeterminedByTree ==
    pc = "returned" => ResultBag = TreeBag

\* A walk has returned its two results in the reverse of traversal order: the
\* result of the last path first, that of the first path second.
C13_Witness ==
    /\ pc = "returned"
    /\ Len(results) = 2
    /\ results[1].path = NumPaths
    /\ results[2].path = 1
    /\ BagCardinality(ResultBag) = 2

\* C14: is_jrnl_path never fails, and returns true only for a non-directory
\* path whose extension is md or txt: the traversal never aborts in the
\* filter, and on every entry the traversal has passed the verdict was true
\* for such a path and false for every other.
C14_FilterNeverFails ==
    /\ pc # "panicked"
    /\ \A p \in Paths :
          (p < idx /\ tree[p].ok) =>
              is_jrnl_path(tree[p]) =
                  IF ~tree[p].dir /\ tree[p].ext \in {"md", "txt"}
                  THEN "true" ELSE "false"

\* C15: the scan splits only at the first line whose trimmed content is
\* ---: the raw metadata block is the lines strictly before it, the
\* delimiter line is in neither part, and every later line, later --- lines
\* included, is appended to the body in file order; this body is the one
\* of the record when the block decodes and the body is not empty.
C15_SplitsAtFirstDelimiterOnly ==
    (ppc = "parsed" /\ HasDelim(file)) =>
        LET sc == Scan(file, 1, -1, <<>>, <<>>)
        IN  /\ sc.end_idx = FirstDelim(file)
            /\ sc.rawfm = Before(file)
            /\ sc.body = After(file)
            /\ Len(sc.rawfm) + 1 + Len(sc.body) = Len(file)
            /\ (~entry.fm_err /\ After(file) # <<>>) =>
                  entry.body = Join(After(file), "\n")

\* A file with two delimiter lines has been parsed: the second one is the
\* body.
C15_Witness ==
    /\ ppc = "parsed"
    /\ file = << <<"i", "d", ":", " ", "x", "1">>, DELIM, DELIM >>
    /\ ~entry.fm_err
    /\ Get(entry.fm, ID) = Some(YString(<<"x", "1">>))
    /\ entry.body = DELIM

\* C16: in every reachable state of a walk at most PoolSize units are
\* executing their closure (the path_fn call, or the send after it); a
\* dispatched unit beyond that is in the pool's queue, its path_fn not yet
\* called.
C16_AtMostPoolSizeExecuting ==
    /\ Cardinality({p \in Paths : unit[p] = "run"}) <= PoolSize
    /\ Cardinality(Busy) <= PoolSize
    /\ \A p \in Paths :
          unit[p] = "queued" <=> \E i \in 1..Len(queue) : queue[i] = p
    /\ \A i \in 1..Len(queue) : queue[i] \notin called

\* Every thread of the pool is inside a path_fn call and one more unit waits
\* in the queue.
C16_Witness ==
    /\ Cardinality({p \in Paths : unit[p] = "run"}) = PoolSize
    /\ Len(queue) = 1
    /\ Cardinality(called) = PoolSize

\* C17: dispatch never blocks the traversing thread: while the traversal
\* stands on an eligible path the dispatch step is enabled, whatever has
\* been queued, started or finished; a unit that has its result can send it
\* at once, the collector receiving or not; and no result is received
\* before the traversal is over and the original sender dropped.
C17_DispatchNeverBlocks ==
    /\ (pc = "walk" /\ idx <= NumPaths /\ get_jrnl_walker(idx) = "yield")
          => ENABLED Dispatch
    /\ \A p \in Paths : unit[p] = "send" => ENABLED WorkerSend(p)
    /\ results # <<>> => (pc \in {"collect", "returned"} /\ idx > NumPaths)

\* Every path is eligible and has been dispatched, the pool is full, the
\* rest waits in the queue and no unit has completed; the collector has
\* not begun.
C17_Witness ==
    /\ pc = "walk"
    /\ idx = NumPaths + 1
    /\ EligiblePaths = Paths
    /\ \A p \in Paths : unit[p] \in {"queued", "run"}
    /\ Len(queue) = NumPaths - PoolSize
    /\ chan = <<>>
    /\ results = <<>>

\* C18: new_entry writes the requested name as the id of the new entry only
\* when no existing entry of the journal directory has that id; when one
\* has, the new file is written with an empty id.
C18_IdWrittenOnlyWhenUnused ==
    npc = "written" =>
        LET taken == \E f \in FileNames \ {written.file} :
                        journal[f].exists /\ journal[f].id = newName
        IN  written.id = IF taken THEN "" ELSE newName

\* C19: in every reachable state of a walk the receiver is alive whenever a
\* worker sends: rx is released only when every Sender, the original and
\* the clones of the units, has been dropped, so no send fails and the
\* "Couldn't send data!" abort is never reached.
C19_ReceiverOutlivesSenders ==
    /\ ~sendFailed
    /\ ~rxAlive => senders = 0
    /\ \A p \in Paths : unit[p] \in {"queued", "run", "send"} => rxAlive

\* C20: a path_fn call that panics does not hang the walk: its unit ends
\* with its Sender dropped and nothing sent, the live Senders are always
\* those of the calling thread and of the unfinished units, and a walk that
\* has a panicking call and no hanging one returns, once the traversal is
\* over, with one result for each of the other eligible paths.
C20_PanickingUnitDoesNotHang ==
    /\ [](pc # "panicked" =>
            senders = (IF pc = "walk" THEN 1 ELSE 0)
                + Cardinality({p \in Paths :
                                 unit[p] \in {"queued", "run", "send", "drop"}}))
    /\ [](\A p \in Paths :
            tree[p].conv = "panic" =>
                /\ \A i \in 1..Len(chan) : chan[i].path # p
                /\ \A i \in 1..Len(results) : results[i].path # p)
    /\ [](pc = "returned" =>
            { results[i].path : i \in 1..Len(results) } =
                { p \in EligiblePaths : tree[p].conv # "panic" })
    /\ ((/\ pc = "collect"
         /\ \E p \in EligiblePaths : tree[p].conv = "panic"
         /\ \A p \in EligiblePaths : tree[p].conv # "hang")
          ~> (pc = "returned"))

\* A walk has returned the result of one path although the call on another
\* path panicked.
C20_Witness ==
    /\ pc = "returned"
    /\ Len(results) = 1
    /\ \E p \in called : tree[p].conv = "panic" /\ unit[p] = "done"
    /\ \E p \in called : tree[p].conv = "ok"

====
